---- MODULE Spec2Model ----
(***************************************************************************)
(* Model of the sentiment engine of the Telegram news analyzer             *)
(* (src/sentiment_analyzer.py, src/config.py).                             *)
(*                                                                         *)
(* Scores are Python floats in the source.  Here a score is an exact       *)
(* rational <<numerator, denominator>> (denominator > 0, lowest terms), so *)
(* every comparison and every sum is the mathematical one; rounding of the *)
(* floating-point operations is not modelled.                              *)
(***************************************************************************)
EXTENDS Integers, Sequences, FiniteSets, TLC

\* ------------------------------------------------------------------ bounds

\* Longest comment list handed to determine_post_sentiment_from_comments.
MaxComments == 3
\* The largest number of pieces a text messages_given to clean_text is made of.
MaxChunks == 4
\* The largest number of posts handed to analyze_messages_sentiment.
MaxPosts == 2
\* The largest number of runs of _monitor_callback in progress together.
MaxTicks == 2
\* The largest number of jobs of one name the job queue is let to hold.
MaxJobs == 2
\* The largest number of restarts of the bot process.
MaxRestarts == 1
\* The last second of the clock.
MaxTime == 12

\* ------------------------------------------------------------- rationals

Abs(x) == IF x < 0 THEN -x ELSE x

RECURSIVE Gcd(_, _)
Gcd(a, b) == IF b = 0 THEN a ELSE Gcd(b, a % b)

\* The rational n/d (d # 0) in lowest terms with a positive denominator.
Rat(n, d) ==
    LET g == Gcd(Abs(n), Abs(d))
        s == IF d < 0 THEN -1 ELSE 1
    IN  <<(s * n) \div g, (s * d) \div g>>

RatInt(k) == <<k, 1>>
RatAdd(a, b) == Rat(a[1] * b[2] + b[1] * a[2], a[2] * b[2])
RatSub(a, b) == Rat(a[1] * b[2] - b[1] * a[2], a[2] * b[2])
RatMul(a, b) == Rat(a[1] * b[1], a[2] * b[2])
\* a / b, b # 0
RatDiv(a, b) == Rat(a[1] * b[2], a[2] * b[1])
RatLt(a, b) == a[1] * b[2] < b[1] * a[2]
RatLe(a, b) == a[1] * b[2] <= b[1] * a[2]
RatGt(a, b) == RatLt(b, a)
RatGe(a, b) == RatLe(b, a)
RatMax(a, b) == IF RatLt(a, b) THEN b ELSE a

\* The float 1.0 in tenths: model outputs are written in tenths (6 is 0.6).
One == 10
Tenths(k) == Rat(k, One)
\* The literal 0.5 of the blending formula.
Half == Rat(1, 2)

\* A score dictionary {'positive': p, 'negative': n, 'neutral': u}.
Scores(p, n, u) == [positive |-> p, negative |-> n, neutral |-> u]

\* The insertion order of every score dictionary the analyzer builds.
Keys == <<"positive", "negative", "neutral">>

\* {'positive': 0.0, 'negative': 0.0, 'neutral': 1.0}
NeutralDefault == Scores(RatInt(0), RatInt(0), RatInt(1))

\* ------------------------------------------------------------------ text
\* A text is a sequence of one-character strings; Python's None is NoneText.

NoneText == <<"<None>">>

Letters == {"a", "b", "h", "k", "o", "p", "s", "t", "x", "y"}
Digits == {"1"}
\* \w
WordChars == Letters \cup Digits \cup {"_"}
\* \s
SpaceChars == {" ", "\t", "\n"}
\* The punctuation of the range $-_ of the URL pattern's class [$-_@.&+].
DollarToUnderscore ==
    {"$", "%", "&", "'", "(", ")", "*", "+", ",", "-", ".", "/", ":", ";",
     "<", "=", ">", "?", "@", "[", "\\", "]", "^", "_"}
\* [a-zA-Z] | [0-9] | [$-_@.&+] | [!*\\(\\),]   (%hh is made of characters
\* that are in the class already)
UrlChars == Letters \cup Digits \cup DollarToUnderscore \cup {"!"}

\* Length of the longest prefix of text made of characters of class.
RECURSIVE RunLen(_, _)
RunLen(text, class) ==
    IF text = <<>> \/ Head(text) \notin class THEN 0
    ELSE 1 + RunLen(Tail(text), class)

StartsWith(text, prefix) ==
    /\ Len(text) >= Len(prefix)
    /\ SubSeq(text, 1, Len(prefix)) = prefix

Drop(text, k) == SubSeq(text, k + 1, Len(text))

\* Length of the match of  http[s]?://(?:urlchar)+  at the start of text,
\* 0 when it does not match there.
UrlMatchLen(text) ==
    LET scheme == IF StartsWith(text, <<"h", "t", "t", "p", "s", ":", "/", "/">>) THEN 8
                  ELSE IF StartsWith(text, <<"h", "t", "t", "p", ":", "/", "/">>) THEN 7
                  ELSE 0
        run == IF scheme = 0 THEN 0 ELSE RunLen(Drop(text, scheme), UrlChars)
    IN  IF run = 0 THEN 0 ELSE scheme + run

\* re.sub(r'http[s]?://(...)+', '', text)
RECURSIVE StripUrls(_)
StripUrls(text) ==
    IF text = <<>> THEN <<>>
    ELSE IF UrlMatchLen(text) > 0 THEN StripUrls(Drop(text, UrlMatchLen(text)))
    ELSE <<Head(text)>> \o StripUrls(Tail(text))

\* Length of the match of  <sigil>\w+  at the start of text, 0 when none.
TokenMatchLen(text, sigil) ==
    IF text # <<>> /\ Head(text) = sigil /\ RunLen(Tail(text), WordChars) > 0
    THEN 1 + RunLen(Tail(text), WordChars)
    ELSE 0

\* re.sub(r'@\w+', '', text) with sigil "@", re.sub(r'#\w+', '', text) with "#"
RECURSIVE StripTokens(_, _)
StripTokens(text, sigil) ==
    IF text = <<>> THEN <<>>
    ELSE IF TokenMatchLen(text, sigil) > 0
         THEN StripTokens(Drop(text, TokenMatchLen(text, sigil)), sigil)
    ELSE <<Head(text)>> \o StripTokens(Tail(text), sigil)

\* re.sub(r'\s+', ' ', text)
RECURSIVE CollapseSpaces(_)
CollapseSpaces(text) ==
    IF text = <<>> THEN <<>>
    ELSE IF Head(text) \in SpaceChars
         THEN <<" ">> \o CollapseSpaces(Drop(text, RunLen(text, SpaceChars)))
    ELSE <<Head(text)>> \o CollapseSpaces(Tail(text))

\* str.strip()
RECURSIVE Strip(_)
Strip(text) ==
    IF text = <<>> THEN <<>>
    ELSE IF Head(text) \in SpaceChars THEN Strip(Tail(text))
    ELSE IF text[Len(text)] \in SpaceChars THEN Strip(SubSeq(text, 1, Len(text) - 1))
    ELSE text

\* clean_text without its final .strip().
clean_text_unstripped(text) ==
    IF text = NoneText \/ text = <<>> THEN <<>>
    ELSE CollapseSpaces(StripTokens(StripTokens(StripUrls(text), "@"), "#"))

\* SentimentAnalyzer.clean_text
clean_text(text) ==
    IF text = NoneText \/ text = <<>> THEN <<>>
    ELSE Strip(CollapseSpaces(StripTokens(StripTokens(StripUrls(text), "@"), "#")))

\* -------------------------------------------------------------- backends
\* What the collaborators can answer.  The transformer pipeline answers a
\* list of {label, score} entries or raises; TextBlob answers a polarity in
\* [-1, 1] or raises.  raises stands for any exception.

\* Config.SENTIMENT_THRESHOLD, default 0.1, in tenths.
SENTIMENT_THRESHOLD == 1

\* (positive, negative, neutral) score triples, in tenths, that the pipeline
\* is taken to answer: negative, positive, a positive/negative tie, a
\* negative/neutral tie, and all zero.
ModelScores ==
    {<<3, 4, 3>>, <<9, 0, 1>>, <<4, 4, 2>>, <<0, 5, 5>>, <<0, 0, 0>>}

\* The pipeline's answer for a triple, in the order the model lists labels.
LabelledResults(t) ==
    << [label |-> "negative", score |-> Tenths(t[2])],
       [label |-> "neutral",  score |-> Tenths(t[3])],
       [label |-> "positive", score |-> Tenths(t[1])] >>

\* An empty list is what leaves every score at 0.0.
PipelineOutcomes ==
    {[raises |-> TRUE, results |-> <<>>]}
    \cup {[raises |-> FALSE, results |-> LabelledResults(t)] : t \in ModelScores \ {<<0, 0, 0>>}}
    \cup {[raises |-> FALSE, results |-> <<>>]}

\* Polarities TextBlob is taken to answer, in tenths.
Polarities == {-8, 1, 8}
BlobOutcomes ==
    {[raises |-> TRUE, polarity |-> 0]}
    \cup {[raises |-> FALSE, polarity |-> p] : p \in Polarities}

\* The texts of comments: None, '', a text that cleans to '', a plain text.
Texts == {NoneText, <<>>, <<"@", "a">>, <<"o", "k">>}

\* Config.NEGATIVE_COMMENT_THRESHOLD as read from the environment, in
\* tenths: float() accepts any number, inside [0, 1] or not.
ThresholdValues == {0, 3, 5, 10, 15}

\* ---------------------------------------------------------- the analyzer

\* label.lower() of the labels above: 'positive' in label or label == 'pos'
IsPositiveLabel(label) == label \in {"positive", "pos"}
IsNegativeLabel(label) == label \in {"negative", "neg"}

\* The for loop of analyze_sentiment_transformer over results[1..k].
RECURSIVE ApplyResults(_, _)
ApplyResults(results, k) ==
    IF k = 0 THEN Scores(RatInt(0), RatInt(0), RatInt(0))
    ELSE LET acc == ApplyResults(results, k - 1)
             r == results[k]
         IN  IF IsPositiveLabel(r.label) THEN [acc EXCEPT !.positive = r.score]
             ELSE IF IsNegativeLabel(r.label) THEN [acc EXCEPT !.negative = r.score]
             ELSE [acc EXCEPT !.neutral = r.score]

\* One backend invocation: which backend, and whether it raised.
Invoked(backend, raised) == [backend |-> backend, raised |-> raised]

\* analyze_sentiment_textblob without its try/except: TextBlob's exception
\* leaves the function.
analyze_sentiment_textblob_unguarded(blob) ==
    [scores |-> NeutralDefault, calls |-> <<Invoked("textblob", blob.raises)>>,
     escaped |-> blob.raises]

\* SentimentAnalyzer.analyze_sentiment_textblob: blob is TextBlob's outcome.
\* Returns the scores, the backends invoked and whether an exception escapes.
analyze_sentiment_textblob(blob) ==
    IF blob.raises
    THEN [scores |-> NeutralDefault, calls |-> <<Invoked("textblob", TRUE)>>,
          escaped |-> FALSE]
    ELSE LET mag == Tenths(Abs(blob.polarity))
             s == IF blob.polarity > SENTIMENT_THRESHOLD
                      THEN Scores(mag, RatInt(0), RatSub(RatInt(1), mag))
                  ELSE IF blob.polarity < -SENTIMENT_THRESHOLD
                      THEN Scores(RatInt(0), mag, RatSub(RatInt(1), mag))
                  ELSE NeutralDefault
         IN  [scores |-> s, calls |-> <<Invoked("textblob", FALSE)>>, escaped |-> FALSE]

\* SentimentAnalyzer.analyze_sentiment_transformer: out is the pipeline's
\* outcome, blob TextBlob's outcome should the fallback run.
analyze_sentiment_transformer(out, blob) ==
    IF out.raises
    THEN LET fb == analyze_sentiment_textblob(blob)
         IN  [fb EXCEPT !.calls = <<Invoked("transformer", TRUE)>> \o fb.calls]
    ELSE [scores |-> ApplyResults(out.results, Len(out.results)),
          calls |-> <<Invoked("transformer", FALSE)>>,
          escaped |-> FALSE]

\* analyze_sentiment without its  if not cleaned_text  guard.
analyze_sentiment_unguarded(cleaned_text, pipeline, out, blob) ==
    IF pipeline THEN analyze_sentiment_transformer(out, blob)
    ELSE analyze_sentiment_textblob(blob)

\* SentimentAnalyzer.analyze_sentiment from its second statement on, messages_given
\* cleaned_text = self.clean_text(text).
analyze_sentiment(cleaned_text, pipeline, out, blob) ==
    IF cleaned_text = <<>>
    THEN [scores |-> NeutralDefault, calls |-> <<>>, escaped |-> FALSE]
    ELSE IF pipeline THEN analyze_sentiment_transformer(out, blob)
    ELSE analyze_sentiment_textblob(blob)

\* A max that keeps the last of the items with the largest score.
RECURSIVE PyMaxKeyLast(_, _, _)
PyMaxKeyLast(scores, keys, k) ==
    IF k = 1 THEN keys[1]
    ELSE LET best == PyMaxKeyLast(scores, keys, k - 1)
         IN  IF RatGe(scores[keys[k]], scores[best]) THEN keys[k] ELSE best

\* Python's max(items, key=...): the first item with the largest score.
RECURSIVE PyMaxKey(_, _, _)
PyMaxKey(scores, keys, k) ==
    IF k = 1 THEN keys[1]
    ELSE LET best == PyMaxKey(scores, keys, k - 1)
         IN  IF RatGt(scores[keys[k]], scores[best]) THEN keys[k] ELSE best

\* SentimentAnalyzer.get_dominant_sentiment
get_dominant_sentiment(sentiment_scores) == PyMaxKey(sentiment_scores, Keys, Len(Keys))

\* is_negative with >= in place of >.
is_negative_non_strict(sentiment_scores) ==
    RatGe(sentiment_scores.negative,
          RatMax(sentiment_scores.positive, sentiment_scores.neutral))

\* SentimentAnalyzer.is_negative
is_negative(sentiment_scores) ==
    RatGt(sentiment_scores.negative,
          RatMax(sentiment_scores.positive, sentiment_scores.neutral))

\* sum(xs) of a list of scores
RECURSIVE RatSum(_)
RatSum(xs) == IF xs = <<>> THEN RatInt(0) ELSE RatAdd(Head(xs), RatSum(Tail(xs)))

\* positive_scores, negative_scores, neutral_scores: one entry per comment
FieldScores(sentiments, key) == [i \in 1..Len(sentiments) |-> sentiments[i][key]]

\* The blend with the neutral mean damped by (1 - ratio), like the positive.
BlendedScoresSameDamping(sentiments, negative_percentage) ==
    LET total_comments == RatInt(Len(sentiments))
    IN  Scores(
          RatMul(RatDiv(RatSum(FieldScores(sentiments, "positive")), total_comments),
                 RatSub(RatInt(1), negative_percentage)),
          RatAdd(RatDiv(RatSum(FieldScores(sentiments, "negative")), total_comments),
                 RatMul(negative_percentage, Half)),
          RatMul(RatDiv(RatSum(FieldScores(sentiments, "neutral")), total_comments),
                 RatSub(RatInt(1), negative_percentage)))

\* The escalation branch's post_sentiment before normalisation.
BlendedScores(sentiments, negative_percentage) ==
    LET total_comments == RatInt(Len(sentiments))
    IN  Scores(
          RatMul(RatDiv(RatSum(FieldScores(sentiments, "positive")), total_comments),
                 RatSub(RatInt(1), negative_percentage)),
          RatAdd(RatDiv(RatSum(FieldScores(sentiments, "negative")), total_comments),
                 RatMul(negative_percentage, Half)),
          RatMul(RatDiv(RatSum(FieldScores(sentiments, "neutral")), total_comments),
                 RatSub(RatInt(1), RatMul(negative_percentage, Half))))

\* The normalisation with a zero total corrected to the neutral default.
NormalizeOrNeutral(post_sentiment) ==
    LET total_score == RatAdd(RatAdd(post_sentiment.positive, post_sentiment.negative),
                              post_sentiment.neutral)
    IN  IF RatGt(total_score, RatInt(0))
        THEN Scores(RatDiv(post_sentiment.positive, total_score),
                    RatDiv(post_sentiment.negative, total_score),
                    RatDiv(post_sentiment.neutral, total_score))
        ELSE NeutralDefault

\* The blend returned without the division by total_score.
NormalizeSkipped(post_sentiment) == post_sentiment

\* total_score = sum(values); if total_score > 0: divide each by it
Normalize(post_sentiment) ==
    LET total_score == RatAdd(RatAdd(post_sentiment.positive, post_sentiment.negative),
                              post_sentiment.neutral)
    IN  IF RatGt(total_score, RatInt(0))
        THEN Scores(RatDiv(post_sentiment.positive, total_score),
                    RatDiv(post_sentiment.negative, total_score),
                    RatDiv(post_sentiment.neutral, total_score))
        ELSE post_sentiment

\* The sums returned without the division by total_comments.
MeanScoresUndivided(sentiments) ==
    Scores(RatSum(FieldScores(sentiments, "positive")),
           RatSum(FieldScores(sentiments, "negative")),
           RatSum(FieldScores(sentiments, "neutral")))

\* The else branch's post_sentiment.
MeanScores(sentiments) ==
    LET total_comments == RatInt(Len(sentiments))
    IN  Scores(RatDiv(RatSum(FieldScores(sentiments, "positive")), total_comments),
               RatDiv(RatSum(FieldScores(sentiments, "negative")), total_comments),
               RatDiv(RatSum(FieldScores(sentiments, "neutral")), total_comments))

\* The threshold test with > in place of >=.
EscalatesStrict(negative_percentage, thr) == RatGt(negative_percentage, Tenths(thr))

\* negative_percentage >= Config.NEGATIVE_COMMENT_THRESHOLD
Escalates(negative_percentage, thr) == RatGe(negative_percentage, Tenths(thr))

\* The verdict of determine_post_sentiment_from_comments once every comment
\* of a non-empty list is analysed.
PostVerdict(sentiments, count, thr) ==
    LET negative_percentage == Rat(count, Len(sentiments))
    IN  IF Escalates(negative_percentage, thr)
        THEN [sentiment |-> Normalize(BlendedScores(sentiments, negative_percentage)),
              dominant_sentiment |-> "negative",
              is_negative |-> TRUE]
        ELSE LET post_sentiment == MeanScores(sentiments)
             IN  [sentiment |-> post_sentiment,
                  dominant_sentiment |-> get_dominant_sentiment(post_sentiment),
                  is_negative |-> is_negative(post_sentiment)]

\* The empty-list verdict with every score 0.0.
EmptyVerdictAllZero ==
    [sentiment |-> Scores(RatInt(0), RatInt(0), RatInt(0)),
     dominant_sentiment |-> "neutral", is_negative |-> FALSE]

\* The verdict for an empty comment list.
EmptyVerdict ==
    [sentiment |-> NeutralDefault, dominant_sentiment |-> "neutral", is_negative |-> FALSE]

\* ------------------------------------------------------------ the program

VARIABLES
    threshold,           \* Config.NEGATIVE_COMMENT_THRESHOLD, in tenths
    sentiment_pipeline,  \* TRUE: the transformer loaded; FALSE: None (TextBlob)
    pc,                  \* "idle", "loop" (inside the for loop), "done", "raised"
    comments,            \* the texts of the comments of the call
    comment_sentiments,  \* the scores of the comments analysed so far
    negative_count,
    calls,               \* per analysed comment, the backends invoked for it
    result,              \* the returned tuple
    input_text,          \* the argument of a direct call of clean_text
    cleaned,             \* what clean_text(text) returned
    recleaned,           \* what clean_text returned for its own output
    passes,              \* how many of the two calls of clean_text are made
    messages,            \* the argument of analyze_messages_sentiment
    analyzed_messages,   \* the list the for loop over messages builds
    batch_pc,            \* "idle", "loop", "done", "returned"
    model,               \* per cleaned text, the answers the backends can give
    previous,            \* the last call returned: its messages and its output
    messages_given,      \* the value of messages when the call was made
    selected_channels,   \* NegativePostsBot.selected_channels
    channel_entities,    \* the keys of TelegramNewsClient.channel_entities, in order
    messages_by_channel, \* the channels whose posts an analysis fetched, in order
    bot_pc,              \* "idle", "entered", "connected", "fetched", "failed"
    monitoring_active,   \* NegativePostsBot.monitoring_active
    monitoring_chat_id,  \* NegativePostsBot.monitoring_chat_id, NoChat for None
    jobs,                \* per chat, the repeating jobs named monitor_<chat> scheduled
    sent_message_ids,    \* NegativePostsBot.sent_message_ids
    sent_file,           \* the sent_ids of sent_messages.json
    ticks,               \* the runs of _monitor_callback in progress
    alerts,              \* per post, the alerts sent for it since the first start
    negatives_seen,      \* the posts a tick has analysed as negative
    last_alert,          \* what the last _send_negative_post_alert did
    restarts,            \* how often the bot process was started again
    starting,            \* the chat whose start_monitor button awaits its first reply
    now,                 \* time.time(), in seconds
    recent_commands,     \* NegativePostsBot.recent_commands
    recent_callbacks,    \* NegativePostsBot.recent_callbacks
    accepted,            \* per key, when it was last let through
    last_decision,       \* the last duplicate check: its key, time and answer
    date_selection_state, \* NegativePostsBot.date_selection_state, per chat
    calendar_event,      \* the last calendar handler run: its chat, data and effect
    report_messages,     \* messages of generate_multichannel_negative_posts_report
    max_posts,           \* its max_posts
    channels_data,       \* per channel, its negative_posts when the report is made
    report_pc,           \* "idle", "called", "done"
    long_message,        \* message of _send_long_message, as the lengths of its lines
    chunks,              \* its chunks
    sent_texts,          \* the texts it has given to send_message, in order
    send_pc              \* "idle", "called", "sending", "done"

config_vars == <<threshold, sentiment_pipeline>>
post_vars == <<pc, comments, comment_sentiments, negative_count, calls, result>>
cleaner_vars == <<input_text, cleaned, recleaned, passes>>
batch_vars == <<messages, analyzed_messages, batch_pc, model, previous, messages_given>>

bot_vars == <<selected_channels, channel_entities, messages_by_channel, bot_pc>>

monitor_vars == <<monitoring_active, monitoring_chat_id, jobs, sent_message_ids, sent_file,
                  ticks, alerts, negatives_seen, last_alert, restarts, starting>>

dedup_vars == <<now, recent_commands, recent_callbacks, accepted, last_decision>>

calendar_vars == <<date_selection_state, calendar_event>>

report_vars == <<report_messages, max_posts, channels_data, report_pc>>

sender_vars == <<long_message, chunks, sent_texts, send_pc>>

vars == <<config_vars, post_vars, cleaner_vars, batch_vars, bot_vars, monitor_vars,
          dedup_vars, calendar_vars, report_vars, sender_vars>>

NoResult == [sentiment |-> Scores(RatInt(0), RatInt(0), RatInt(0)),
             dominant_sentiment |-> "", is_negative |-> FALSE]

\* Comment lists of at most MaxComments entries.
CommentLists == UNION {[1..n -> Texts] : n \in 0..MaxComments}

\* No call of clean_text on its own is in progress.
CleanerIdle ==
    /\ input_text = <<>>
    /\ cleaned = <<>>
    /\ recleaned = <<>>
    /\ passes = 0

\* No call of analyze_messages_sentiment was made.
NoRun == [messages |-> <<>>, analyzed_messages |-> <<>>, returned |-> FALSE]
BatchIdle ==
    /\ messages = <<>>
    /\ analyzed_messages = <<>>
    /\ batch_pc = "idle"
    /\ model = <<>>
    /\ previous = NoRun
    /\ messages_given = <<>>

\* Config.get_channels_list(): the channels of CHANNELS_LIST.
ConfiguredChannels == <<"@a", "@b", "@c">>

\* NegativePostsBot.__init__: every configured channel is selected; no
\* analysis runs.
BotIdle ==
    /\ selected_channels = ConfiguredChannels
    /\ channel_entities = <<>>
    /\ messages_by_channel = <<>>
    /\ bot_pc = "idle"

\* The chats that talk to the bot.
Chats == {1, 2}
\* monitoring_chat_id = None
NoChat == 0

\* The posts the channels hold: two channels have a post with the same id.
MonitorPosts == {[channel |-> "@a", id |-> 1], [channel |-> "@b", id |-> 1]}

IdleTick == [pc |-> "idle", pending |-> <<>>]
NoAlert == [outcome |-> "none", active |-> FALSE]

\* NegativePostsBot.__init__ with no sent_messages.json: monitoring is off,
\* nothing is scheduled, nothing was alerted.
MonitorIdle ==
    /\ monitoring_active = FALSE
    /\ monitoring_chat_id = NoChat
    /\ jobs = [c \in Chats |-> 0]
    /\ sent_message_ids = {}
    /\ sent_file = {}
    /\ ticks = [t \in 1..MaxTicks |-> IdleTick]
    /\ alerts = [p \in MonitorPosts |-> 0]
    /\ negatives_seen = {}
    /\ last_alert = NoAlert
    /\ restarts = 0
    /\ starting = NoChat

\* No duplicate check was made yet.
NoDecision == [key |-> <<>>, at |-> 0, suppressed |-> FALSE, had_previous |-> FALSE,
               previous |-> 0]

\* NegativePostsBot.__init__: both dicts are empty.
DedupIdle ==
    /\ now = 0
    /\ recent_commands = <<>>
    /\ recent_callbacks = <<>>
    /\ accepted = <<>>
    /\ last_decision = NoDecision

\* A date that was not picked, and a chat that has no entry in
\* date_selection_state.
NoDate == <<>>
NoSelection == [stage |-> "none", start_date |-> NoDate, end_date |-> NoDate,
                current_month |-> NoDate]

\* No calendar handler has run yet.
NoEvent == [chat_id |-> NoChat, data |-> <<>>, before |-> <<>>, analysis |-> <<>>]

\* NegativePostsBot.__init__ sets no date_selection_state: no chat has one.
CalendarIdle ==
    /\ date_selection_state = [chat \in Chats |-> NoSelection]
    /\ calendar_event = NoEvent


\* generate_multichannel_negative_posts_report was not called.
ReportIdle ==
    /\ report_messages = <<>>
    /\ max_posts = 0
    /\ channels_data = <<>>
    /\ report_pc = "idle"

\* _send_long_message was not called.
SenderIdle ==
    /\ long_message = <<>>
    /\ chunks = <<>>
    /\ sent_texts = <<>>
    /\ send_pc = "idle"

\* Config is loaded and SentimentAnalyzer.__init__ has run: the transformer
\* loaded, or initialize_models fell back to None.
Init ==
    /\ threshold \in ThresholdValues
    /\ sentiment_pipeline \in BOOLEAN
    /\ pc = "idle"
    /\ comments = <<>>
    /\ comment_sentiments = <<>>
    /\ negative_count = 0
    /\ calls = <<>>
    /\ result = NoResult
    /\ CleanerIdle
    /\ BatchIdle
    /\ BotIdle
    /\ MonitorIdle
    /\ DedupIdle
    /\ CalendarIdle
    /\ ReportIdle
    /\ SenderIdle

\* determine_post_sentiment_from_comments is entered with an empty list.
CallEmpty ==
    /\ pc = "idle"
    /\ comments' = <<>>
    /\ comment_sentiments' = <<>>
    /\ negative_count' = 0
    /\ calls' = <<>>
    /\ result' = EmptyVerdict
    /\ pc' = "done"
    /\ UNCHANGED <<config_vars, calendar_vars, report_vars, sender_vars, monitor_vars, dedup_vars, cleaner_vars, batch_vars, bot_vars>>

\* determine_post_sentiment_from_comments is entered with comments.
CallWithComments ==
    /\ pc = "idle"
    /\ \E cs \in CommentLists \ {<<>>} :
         /\ comments' = cs
         /\ comment_sentiments' = <<>>
         /\ negative_count' = 0
         /\ calls' = <<>>
         /\ result' = NoResult
         /\ pc' = "loop"
    /\ UNCHANGED <<config_vars, calendar_vars, report_vars, sender_vars, monitor_vars, dedup_vars, cleaner_vars, batch_vars, bot_vars>>

\* What analyze_sentiment(text) can return, over the backends' outcomes.
Answers(text, pipeline) ==
    LET cleaned_text == clean_text(text)
    IN  {analyze_sentiment(cleaned_text, pipeline, out, blob) :
            out \in PipelineOutcomes, blob \in BlobOutcomes}

\* One iteration of  for comment in comments; after the last comment the
\* function runs on to its return: the threshold test, the scores, the verdict.
AnalyzeComment ==
    /\ pc = "loop"
    /\ Len(comment_sentiments) < Len(comments)
    /\ \E r \in Answers(comments[Len(comment_sentiments) + 1], sentiment_pipeline) :
         IF r.escaped
         THEN /\ pc' = "raised"
              /\ UNCHANGED <<comment_sentiments, negative_count, calls, result>>
         ELSE /\ comment_sentiments' = Append(comment_sentiments, r.scores)
              /\ negative_count' = IF is_negative(r.scores) THEN negative_count + 1
                                   ELSE negative_count
              /\ calls' = Append(calls, r.calls)
              /\ IF Len(comment_sentiments') < Len(comments)
                 THEN /\ pc' = "loop"
                      /\ UNCHANGED result
                 ELSE /\ pc' = "done"
                      /\ result' = PostVerdict(comment_sentiments', negative_count',
                                               threshold)
    /\ UNCHANGED <<config_vars, calendar_vars, report_vars, sender_vars, monitor_vars, dedup_vars, comments, cleaner_vars, batch_vars, bot_vars>>

\* The caller takes the result (or the exception); the analyzer is called again.
Return ==
    /\ pc \in {"done", "raised"}
    /\ pc' = "idle"
    /\ comments' = <<>>
    /\ comment_sentiments' = <<>>
    /\ negative_count' = 0
    /\ calls' = <<>>
    /\ result' = NoResult
    /\ UNCHANGED <<config_vars, calendar_vars, report_vars, sender_vars, monitor_vars, dedup_vars, cleaner_vars, batch_vars, bot_vars>>

Next == CallEmpty \/ CallWithComments \/ AnalyzeComment \/ Return

Spec == Init /\ [][Next]_vars

\* ------------------------------------------------- clean_text on its own

\* Pieces of message text: the head of a URL, its tail, a mention, a
\* hashtag, a space, a newline and a word.
Chunks ==
    { <<"h", "t", "t", "p", ":", "/">>, <<"/", "x">>, <<"@", "a">>, <<"#", "b">>,
      <<" ">>, <<"\n">>, <<"y">> }

RECURSIVE Flatten(_)
Flatten(pieces) == IF pieces = <<>> THEN <<>> ELSE Head(pieces) \o Flatten(Tail(pieces))

\* None, and the texts made of at most MaxChunks pieces.
ChunkTexts ==
    {NoneText} \cup {Flatten(pieces) : pieces \in UNION {[1..n -> Chunks] : n \in 0..MaxChunks}}

\* A text is about to be cleaned; the configuration is the default one.
InitClean ==
    /\ threshold = 3
    /\ sentiment_pipeline = TRUE
    /\ pc = "idle"
    /\ comments = <<>>
    /\ comment_sentiments = <<>>
    /\ negative_count = 0
    /\ calls = <<>>
    /\ result = NoResult
    /\ input_text \in ChunkTexts
    /\ cleaned = <<>>
    /\ recleaned = <<>>
    /\ passes = 0
    /\ BatchIdle
    /\ BotIdle
    /\ MonitorIdle
    /\ DedupIdle
    /\ CalendarIdle
    /\ ReportIdle
    /\ SenderIdle

\* cleaned = clean_text(text)
CleanText ==
    /\ passes = 0
    /\ cleaned' = clean_text(input_text)
    /\ passes' = 1
    /\ UNCHANGED <<config_vars, calendar_vars, report_vars, sender_vars, monitor_vars, dedup_vars, post_vars, input_text, recleaned, batch_vars, bot_vars>>

\* clean_text is applied to its own output.
CleanAgain ==
    /\ passes = 1
    /\ recleaned' = clean_text(cleaned)
    /\ passes' = 2
    /\ UNCHANGED <<config_vars, calendar_vars, report_vars, sender_vars, monitor_vars, dedup_vars, post_vars, input_text, cleaned, batch_vars, bot_vars>>

NextClean == CleanText \/ CleanAgain

SpecClean == InitClean /\ [][NextClean]_vars

\* ------------------------------------------- analyze_messages_sentiment

\* dict.get(key, default)
Get(d, key, default) == IF key \in DOMAIN d THEN d[key] ELSE default

\* {**d, **extra}: the keys of d, then those of extra, extra winning.
Merge(d, extra) ==
    [k \in DOMAIN d \cup DOMAIN extra |-> IF k \in DOMAIN extra THEN extra[k] ELSE d[k]]

\* A comment as get_post_comments builds it.
Comment(id, comment_text) == [id |-> id, text |-> comment_text]

\* The posts handed to analyze_messages_sentiment: one without a comments
\* key, one with an empty list, one with one comment, one with two comments
\* of which the first cleans to ''.
BatchPosts ==
    { [id |-> 1, text |-> <<"o", "k">>],
      [id |-> 2, text |-> <<"o", "k">>, comments |-> <<>>],
      [id |-> 3, text |-> <<"o", "k">>, comments |-> <<Comment(31, <<"o", "k">>)>>],
      [id |-> 4, text |-> <<"o", "k">>,
       comments |-> <<Comment(41, <<"@", "a">>), Comment(42, <<"o", "h">>)>>] }

\* Lists of at most MaxPosts posts.
Batches == UNION {[1..n -> BatchPosts] : n \in 0..MaxPosts}

\* The cleaned comment texts of BatchPosts that reach a backend.
BatchCleanedTexts == {<<"o", "k">>, <<"o", "h">>}

\* What the two backends are taken to answer on one call: a negative, a
\* positive and a positive/negative tie from the pipeline, or both failing.
Outcome(out, blob) == [out |-> out, blob |-> blob]
BatchOutcomes ==
    { Outcome([raises |-> FALSE, results |-> LabelledResults(<<3, 4, 3>>)],
              [raises |-> FALSE, polarity |-> -8]),
      Outcome([raises |-> FALSE, results |-> LabelledResults(<<9, 0, 1>>)],
              [raises |-> FALSE, polarity |-> 8]),
      Outcome([raises |-> FALSE, results |-> LabelledResults(<<4, 4, 2>>)],
              [raises |-> FALSE, polarity |-> 1]),
      Outcome([raises |-> TRUE, results |-> <<>>], [raises |-> TRUE, polarity |-> 0]) }

\* A model that may answer anything on any call.
AnyModel == [t \in BatchCleanedTexts |-> BatchOutcomes]

\* The models that answer the same on every call for the same text.
DeterministicModels ==
    {[t \in BatchCleanedTexts |-> {f[t]}] : f \in [BatchCleanedTexts -> BatchOutcomes]}

\* What self.analyze_sentiment(comment['text']) can return under model.
AnswersOf(comment_text) ==
    LET cleaned_text == clean_text(comment_text)
        outcomes == Get(model, cleaned_text, BatchOutcomes)
    IN  {analyze_sentiment(cleaned_text, sentiment_pipeline, o.out, o.blob) : o \in outcomes}

\* For a comment list, the answers of one pass of analyze_sentiment over it.
AnswerLists(cs) ==
    {a \in [1..Len(cs) -> UNION {AnswersOf(cs[i].text) : i \in 1..Len(cs)}] :
        \A i \in 1..Len(cs) : a[i] \in AnswersOf(cs[i].text)}

\* The analysed posts so far that are negative: a count carried from one
\* post of the call to the next.
negative_count_carried(analyzed) ==
    Cardinality({i \in 1..Len(analyzed) : analyzed[i].is_negative})

\* The negative posts of the call before this one: a count kept between calls.
negative_count_kept(analyzed) ==
    Cardinality({i \in 1..Len(previous.analyzed_messages) :
                    previous.analyzed_messages[i].is_negative})

\* negative_count = 0 on entering determine_post_sentiment_from_comments,
\* whatever posts were analysed before.
negative_count_at_entry(analyzed) == 0

\* The scores of a list of answers.
ScoresOf(answers) == [i \in 1..Len(answers) |-> answers[i].scores]

\* determine_post_sentiment_from_comments(comments), answers being what its
\* own calls of analyze_sentiment returned, comment by comment.
determine_post_sentiment_from_comments(answers, analyzed) ==
    IF answers = <<>> THEN EmptyVerdict
    ELSE LET sentiments == ScoresOf(answers)
             negative_count_in_loop ==
                 Cardinality({i \in 1..Len(sentiments) : is_negative(sentiments[i])})
         IN  PostVerdict(sentiments,
                         negative_count_at_entry(analyzed) + negative_count_in_loop,
                         threshold)

\* analyzed_comment = {**comment, 'sentiment': ..., ...}
analyzed_comment(comment, answer) ==
    Merge(comment, [sentiment |-> answer.scores,
                    dominant_sentiment |-> get_dominant_sentiment(answer.scores),
                    is_negative |-> is_negative(answer.scores)])

\* A sentiment_source that is 'comments' for every post.
sentiment_source_always_comments(analyzed_comments) == "comments"

\* 'comments' if analyzed_comments else 'neutral_default'
sentiment_source(analyzed_comments) ==
    IF analyzed_comments # <<>> THEN "comments" ELSE "neutral_default"

\* The body of  for message in messages: first holds the answers of the
\* loop over the comments, second those of the calls made inside
\* determine_post_sentiment_from_comments.
analyzed_message(message, first, second, analyzed) ==
    LET cs == Get(message, "comments", <<>>)
        analyzed_comments == [i \in 1..Len(cs) |-> analyzed_comment(cs[i], first[i])]
        verdict == determine_post_sentiment_from_comments(second, analyzed)
    IN  Merge(message, [sentiment |-> verdict.sentiment,
                        dominant_sentiment |-> verdict.dominant_sentiment,
                        is_negative |-> verdict.is_negative,
                        comments |-> analyzed_comments,
                        sentiment_source |-> sentiment_source(analyzed_comments)])

\* The input post after an iteration that annotated it in place.
message_updated_in_place(message, out) == out

\* The input post after the iteration that built out from it: {**message, ...}
\* and {**comment, ...} are new dicts, message and its comments are only read.
message_after(message, out) == message

\* Nothing else runs while a batch is analysed.
OthersIdle ==
    /\ pc = "idle"
    /\ comments = <<>>
    /\ comment_sentiments = <<>>
    /\ negative_count = 0
    /\ calls = <<>>
    /\ result = NoResult
    /\ CleanerIdle
    /\ BotIdle
    /\ MonitorIdle
    /\ DedupIdle
    /\ CalendarIdle
    /\ ReportIdle
    /\ SenderIdle

\* The analyzer is constructed; its model may answer anything on any call.
InitBatch ==
    /\ threshold \in {3, 10}
    /\ sentiment_pipeline \in BOOLEAN
    /\ OthersIdle
    /\ messages = <<>>
    /\ analyzed_messages = <<>>
    /\ batch_pc = "idle"
    /\ model = AnyModel
    /\ previous = NoRun
    /\ messages_given = <<>>

\* The analyzer is constructed with a deterministic model.
InitDeterministic ==
    /\ threshold = 3
    /\ sentiment_pipeline = TRUE
    /\ OthersIdle
    /\ messages = <<>>
    /\ analyzed_messages = <<>>
    /\ batch_pc = "idle"
    /\ model \in DeterministicModels
    /\ previous = NoRun
    /\ messages_given = <<>>

\* analyze_messages_sentiment(ms) is entered: analyzed_messages = [].
Enter(ms) ==
    /\ messages' = ms
    /\ messages_given' = ms
    /\ analyzed_messages' = <<>>
    /\ batch_pc' = IF ms = <<>> THEN "done" ELSE "loop"
    /\ UNCHANGED <<config_vars, calendar_vars, report_vars, sender_vars, monitor_vars, dedup_vars, post_vars, cleaner_vars, model, previous, bot_vars>>

\* The first call of analyze_messages_sentiment.
CallBatch ==
    /\ batch_pc = "idle"
    /\ ~previous.returned
    /\ \E ms \in Batches : Enter(ms)

\* A second call, with the same or with other posts.
CallAgain ==
    /\ batch_pc = "idle"
    /\ previous.returned
    /\ \E ms \in Batches : Enter(ms)

\* One iteration of  for message in messages.
AnalyzeMessage ==
    /\ batch_pc = "loop"
    /\ LET message == messages[Len(analyzed_messages) + 1]
           cs == Get(message, "comments", <<>>)
       IN  \E first \in AnswerLists(cs), second \in AnswerLists(cs) :
             IF \E i \in 1..Len(cs) : first[i].escaped \/ second[i].escaped
             THEN /\ batch_pc' = "raised"
                  /\ UNCHANGED <<analyzed_messages, messages>>
             ELSE LET out == analyzed_message(message, first, second, analyzed_messages)
                  IN  /\ analyzed_messages' = Append(analyzed_messages, out)
                      /\ messages' = [messages EXCEPT ![Len(analyzed_messages) + 1] =
                                                         message_after(message, out)]
                      /\ batch_pc' = IF Len(analyzed_messages') = Len(messages)
                                     THEN "done" ELSE "loop"
    /\ UNCHANGED <<config_vars, calendar_vars, report_vars, sender_vars, monitor_vars, dedup_vars, post_vars, cleaner_vars, model, previous, messages_given, bot_vars>>

\* return analyzed_messages: the caller keeps the list beside its input.
ReturnBatch ==
    /\ batch_pc = "done"
    /\ ~previous.returned
    /\ previous' = [messages |-> messages, analyzed_messages |-> analyzed_messages,
                    returned |-> TRUE]
    /\ messages' = <<>>
    /\ messages_given' = <<>>
    /\ analyzed_messages' = <<>>
    /\ batch_pc' = "idle"
    /\ UNCHANGED <<config_vars, calendar_vars, report_vars, sender_vars, monitor_vars, dedup_vars, post_vars, cleaner_vars, model, bot_vars>>

NextBatch == CallBatch \/ AnalyzeMessage \/ ReturnBatch

SpecBatch == InitBatch /\ [][NextBatch]_vars

NextDeterministic == CallBatch \/ AnalyzeMessage \/ ReturnBatch \/ CallAgain

SpecDeterministic == InitDeterministic /\ [][NextDeterministic]_vars

\* --------------------------------------------- the bot's channel selection

Range(list) == {list[i] : i \in 1..Len(list)}

\* list.remove(x): the list without its first x.
RECURSIVE Remove(_, _)
Remove(list, x) ==
    IF list = <<>> THEN <<>>
    ELSE IF Head(list) = x THEN Tail(list)
    ELSE <<Head(list)>> \o Remove(Tail(list), x)

\* The for loop of TelegramNewsClient.connect over channels[1..k]: the keys
\* of channel_entities afterwards, get_entity succeeding for the channels
\* of reachable and raising for the others.
RECURSIVE Connected(_, _, _, _)
Connected(entities, channels, reachable, k) ==
    IF k = 0 THEN entities
    ELSE LET before == Connected(entities, channels, reachable, k - 1)
         IN  IF channels[k] \in reachable /\ channels[k] \notin Range(before)
             THEN Append(before, channels[k])
             ELSE before

\* NegativePostsBot._toggle_channel_selection
ToggleChannel ==
    /\ bot_pc = "idle"
    /\ \E channel \in Range(ConfiguredChannels) :
         selected_channels' = IF channel \in Range(selected_channels)
                              THEN Remove(selected_channels, channel)
                              ELSE Append(selected_channels, channel)
    /\ UNCHANGED <<config_vars, calendar_vars, report_vars, sender_vars, monitor_vars, dedup_vars, post_vars, cleaner_vars, batch_vars,
                   channel_entities, messages_by_channel, bot_pc>>

\* _run_analysis_with_dates reaches  async with TelegramNewsClient() as client:
\* __aenter__ awaits self.connect(), channels being None.
EnterClient ==
    /\ bot_pc = "idle"
    /\ \E reachable \in SUBSET Range(ConfiguredChannels) :
         /\ channel_entities' = Connected(<<>>, ConfiguredChannels, reachable,
                                          Len(ConfiguredChannels))
         /\ bot_pc' = IF channel_entities' = <<>> THEN "failed" ELSE "entered"
    /\ messages_by_channel' = <<>>
    /\ UNCHANGED <<config_vars, calendar_vars, report_vars, sender_vars, monitor_vars, dedup_vars, post_vars, cleaner_vars, batch_vars, selected_channels>>

\* await client.connect(self.selected_channels)
ConnectSelected ==
    /\ bot_pc = "entered"
    /\ \E reachable \in SUBSET Range(ConfiguredChannels) :
         /\ channel_entities' = Connected(channel_entities, selected_channels, reachable,
                                          Len(selected_channels))
         /\ bot_pc' = IF channel_entities' = <<>> THEN "failed" ELSE "connected"
    /\ UNCHANGED <<config_vars, calendar_vars, report_vars, sender_vars, monitor_vars, dedup_vars, post_vars, cleaner_vars, batch_vars,
                   selected_channels, messages_by_channel>>

\* get_recent_messages_from_all_channels: one entry of results per key of
\* channel_entities; its posts are then analysed and reported.
FetchAll ==
    /\ bot_pc = "connected"
    /\ messages_by_channel' = channel_entities
    /\ bot_pc' = "fetched"
    /\ UNCHANGED <<config_vars, calendar_vars, report_vars, sender_vars, monitor_vars, dedup_vars, post_vars, cleaner_vars, batch_vars,
                   selected_channels, channel_entities>>

\* _run_analysis_with_dates returns, or its except clause has reported.
FinishAnalysis ==
    /\ bot_pc \in {"fetched", "failed"}
    /\ channel_entities' = <<>>
    /\ messages_by_channel' = <<>>
    /\ bot_pc' = "idle"
    /\ UNCHANGED <<config_vars, calendar_vars, report_vars, sender_vars, monitor_vars, dedup_vars, post_vars, cleaner_vars, batch_vars, selected_channels>>

\* The bot is constructed with the default configuration.
InitBot ==
    /\ threshold = 3
    /\ sentiment_pipeline = TRUE
    /\ OthersIdle
    /\ BatchIdle

NextBot == ToggleChannel \/ EnterClient \/ ConnectSelected \/ FetchAll \/ FinishAnalysis

SpecBot == InitBot /\ [][NextBot]_vars

\* ------------------------------------------------------------ monitoring

\* The posts in the order a fetch returns them, channel by channel.
FetchOrder ==
    <<[channel |-> "@a", id |-> 1], [channel |-> "@b", id |-> 1]>>

\* The loop over analyzed_messages[1..k] of _monitor_callback: negative
\* posts whose id is not in sent_message_ids are collected, their id added.
RECURSIVE NewNegatives(_, _, _)
NewNegatives(negatives, sent, k) ==
    IF k = 0 THEN [new |-> <<>>, sent |-> sent]
    ELSE LET before == NewNegatives(negatives, sent, k - 1)
             msg == FetchOrder[k]
         IN  IF msg \in negatives /\ msg.id \notin before.sent
             THEN [new |-> Append(before.new, msg), sent |-> before.sent \cup {msg.id}]
             ELSE before

\* An alert goes out whether or not a monitoring chat is set.
alert_always_allowed(chat_id) == TRUE

\* _send_negative_post_alert:  if not self.monitoring_chat_id: return
alert_allowed(chat_id) == chat_id # NoChat

\* run_repeating schedules one more job named monitor_<chat>.
Scheduled(chat) == [jobs EXCEPT ![chat] = jobs[chat] + 1]

\* NegativePostsBot.monitor_command after its duplicate check: a reply when
\* monitoring is active, else the flags are set and one more job scheduled.
MonitorCommand ==
    /\ starting = NoChat
    /\ \E chat \in Chats :
         /\ jobs[chat] < MaxJobs
         /\ IF monitoring_active
            THEN UNCHANGED <<monitoring_active, monitoring_chat_id, jobs>>
            ELSE /\ monitoring_active' = TRUE
                 /\ monitoring_chat_id' = chat
                 /\ jobs' = Scheduled(chat)
    /\ UNCHANGED <<config_vars, calendar_vars, report_vars, sender_vars, post_vars, cleaner_vars, batch_vars, bot_vars, dedup_vars,
                   sent_message_ids, sent_file, ticks, alerts, negatives_seen,
                   last_alert, restarts, starting>>

\* button_callback with query.data == "start_monitor", up to its first
\* await past the test of monitoring_active.
StartMonitorButton ==
    /\ starting = NoChat
    /\ \E chat \in Chats :
         /\ jobs[chat] < MaxJobs
         /\ starting' = IF monitoring_active THEN NoChat ELSE chat
    /\ UNCHANGED <<config_vars, calendar_vars, report_vars, sender_vars, post_vars, cleaner_vars, batch_vars, bot_vars, dedup_vars,
                   monitoring_active, monitoring_chat_id, jobs, sent_message_ids,
                   sent_file, ticks, alerts, negatives_seen, last_alert, restarts>>

\* The button handler resumes: the flags are set and the job scheduled.
StartMonitorResume ==
    /\ starting # NoChat
    /\ monitoring_active' = TRUE
    /\ monitoring_chat_id' = starting
    /\ jobs' = Scheduled(starting)
    /\ starting' = NoChat
    /\ UNCHANGED <<config_vars, calendar_vars, report_vars, sender_vars, post_vars, cleaner_vars, batch_vars, bot_vars, dedup_vars,
                   sent_message_ids, sent_file, ticks, alerts, negatives_seen,
                   last_alert, restarts>>

\* NegativePostsBot.stop_monitor_command: the jobs named after the chat
\* that sent /stop are removed.
StopCommand ==
    /\ starting = NoChat
    /\ \E chat \in Chats :
         IF ~monitoring_active
         THEN UNCHANGED <<monitoring_active, monitoring_chat_id, jobs>>
         ELSE /\ jobs' = [jobs EXCEPT ![chat] = 0]
              /\ monitoring_active' = FALSE
              /\ monitoring_chat_id' = NoChat
    /\ UNCHANGED <<config_vars, calendar_vars, report_vars, sender_vars, post_vars, cleaner_vars, batch_vars, bot_vars, dedup_vars,
                   sent_message_ids, sent_file, ticks, alerts, negatives_seen,
                   last_alert, restarts, starting>>

\* A scheduled job fires: _monitor_callback returns at once when monitoring
\* is off, else awaits the fetch.
TickStart ==
    /\ \E chat \in Chats : jobs[chat] > 0
    /\ \E t \in 1..MaxTicks :
         /\ ticks[t].pc = "idle"
         /\ IF ~monitoring_active \/ monitoring_chat_id = NoChat
            THEN UNCHANGED ticks
            ELSE ticks' = [ticks EXCEPT ![t] = [pc |-> "fetching", pending |-> <<>>]]
    /\ UNCHANGED <<config_vars, calendar_vars, report_vars, sender_vars, post_vars, cleaner_vars, batch_vars, bot_vars, dedup_vars,
                   monitoring_active, monitoring_chat_id, jobs, sent_message_ids,
                   sent_file, alerts, negatives_seen, last_alert, restarts, starting>>

\* The fetch returned: the posts are analysed, negatives being the negative
\* ones; the new ones are collected and their ids saved, _save_sent_messages
\* writing the file or logging its failure.
TickAnalyze ==
    \E t \in 1..MaxTicks :
      /\ ticks[t].pc = "fetching"
      /\ \E negatives \in SUBSET MonitorPosts :
           LET r == NewNegatives(negatives, sent_message_ids, Len(FetchOrder))
           IN  /\ negatives_seen' = negatives_seen \cup negatives
               /\ sent_message_ids' = r.sent
               /\ IF r.new = <<>>
                  THEN /\ ticks' = [ticks EXCEPT ![t] = IdleTick]
                       /\ UNCHANGED sent_file
                  ELSE /\ ticks' = [ticks EXCEPT ![t] = [pc |-> "alerting", pending |-> r.new]]
                       /\ sent_file' \in {r.sent, sent_file}
      /\ UNCHANGED <<config_vars, calendar_vars, report_vars, sender_vars, post_vars, cleaner_vars, batch_vars, bot_vars, dedup_vars,
                     monitoring_active, monitoring_chat_id, jobs, alerts, last_alert,
                     restarts, starting>>

\* The fetch or the analysis raised: the except clause reports, the tick ends.
TickError ==
    /\ \E t \in 1..MaxTicks :
         /\ ticks[t].pc = "fetching"
         /\ ticks' = [ticks EXCEPT ![t] = IdleTick]
    /\ UNCHANGED <<config_vars, calendar_vars, report_vars, sender_vars, post_vars, cleaner_vars, batch_vars, bot_vars, dedup_vars,
                   monitoring_active, monitoring_chat_id, jobs, sent_message_ids,
                   sent_file, alerts, negatives_seen, last_alert, restarts, starting>>

Min(a, b) == IF a < b THEN a ELSE b

\* await self._send_negative_post_alert(msg) for the next new negative post:
\* nothing without a monitoring chat, else send_message delivers or raises
\* into the except clause of the sender.
TickAlert ==
    /\ \E t \in 1..MaxTicks :
         /\ ticks[t].pc = "alerting"
         /\ LET msg == Head(ticks[t].pending)
                rest == Tail(ticks[t].pending)
            IN  /\ ticks' = [ticks EXCEPT ![t] = IF rest = <<>> THEN IdleTick
                                                 ELSE [pc |-> "alerting", pending |-> rest]]
                /\ IF ~alert_allowed(monitoring_chat_id)
                   THEN /\ last_alert' = [outcome |-> "skipped", active |-> monitoring_active]
                        /\ UNCHANGED alerts
                   ELSE \E delivered \in BOOLEAN :
                          IF delivered
                          THEN /\ alerts' = [alerts EXCEPT ![msg] = Min(alerts[msg] + 1, 2)]
                               /\ last_alert' = [outcome |-> "sent",
                                                 active |-> monitoring_active]
                          ELSE /\ last_alert' = [outcome |-> "failed",
                                                 active |-> monitoring_active]
                               /\ UNCHANGED alerts
    /\ UNCHANGED <<config_vars, calendar_vars, report_vars, sender_vars, post_vars, cleaner_vars, batch_vars, bot_vars, dedup_vars,
                   monitoring_active, monitoring_chat_id, jobs, sent_message_ids,
                   sent_file, negatives_seen, restarts, starting>>

\* The process ends and is started again: NegativePostsBot.__init__ with
\* _load_sent_messages reading sent_messages.json.
Restart ==
    /\ restarts < MaxRestarts
    /\ restarts' = restarts + 1
    /\ monitoring_active' = FALSE
    /\ monitoring_chat_id' = NoChat
    /\ jobs' = [c \in Chats |-> 0]
    /\ ticks' = [t \in 1..MaxTicks |-> IdleTick]
    /\ sent_message_ids' = sent_file
    /\ starting' = NoChat
    /\ UNCHANGED <<config_vars, calendar_vars, report_vars, sender_vars, post_vars, cleaner_vars, batch_vars, bot_vars, dedup_vars,
                   sent_file, alerts, negatives_seen, last_alert>>

\* The bot is constructed with the default configuration and no file.
InitMonitor ==
    /\ threshold = 3
    /\ sentiment_pipeline = TRUE
    /\ OthersIdle
    /\ BatchIdle

NextMonitor ==
    \/ MonitorCommand
    \/ StartMonitorButton
    \/ StartMonitorResume
    \/ StopCommand
    \/ TickStart
    \/ TickAnalyze
    \/ TickError
    \/ TickAlert
    \/ Restart

SpecMonitor == InitMonitor /\ [][NextMonitor]_vars

\* ------------------------------------------------------ duplicate checks

\* timeout of _is_duplicate_command, of _is_duplicate_callback, of the
\* analysis check in _run_analysis_with_dates, and the age at which both
\* checks drop an entry, in seconds.
COMMAND_TIMEOUT == 2
CALLBACK_TIMEOUT == 3
ANALYSIS_TIMEOUT == 30
ENTRY_LIFETIME == 10

\* f"{chat_id}_{command}" and f"{chat_id}_{query.data}"
Key(chat_id, name) == <<chat_id, name>>
\* f"analysis_{chat_id}", a key no f"{chat_id}_{query.data}" equals.
AnalysisKey(chat_id) == <<chat_id, "analysis">>

\* The commands and the buttons the chats send, as <<chat id, name>>.
Commands == {<<1, "start">>, <<1, "help">>, <<2, "start">>}
Buttons == {<<1, "analyze_today">>, <<2, "help">>}

\* The test with <= in place of <.
is_duplicate_inclusive(recent, key, current_time, timeout) ==
    key \in DOMAIN recent /\ current_time - recent[key] <= timeout

\* if key in recent: time_diff = current_time - recent[key];
\* if time_diff < timeout: return True
is_duplicate(recent, key, current_time, timeout) ==
    key \in DOMAIN recent /\ current_time - recent[key] < timeout

\* recent[key] = current_time, then the entries no older than the lifetime.
Remembered(recent, key, current_time) ==
    LET updated == [k \in DOMAIN recent \cup {key} |->
                       IF k = key THEN current_time ELSE recent[k]]
    IN  [k \in {j \in DOMAIN updated : current_time - updated[j] < ENTRY_LIFETIME} |->
            updated[k]]

\* The dict after one call of a duplicate check.
AfterCheck(recent, key, current_time, timeout) ==
    IF is_duplicate(recent, key, current_time, timeout) THEN recent
    ELSE Remembered(recent, key, current_time)

\* The record of a check of key: its answer, and when key was last let through.
Decision(key, suppressed) ==
    [key |-> key, at |-> now, suppressed |-> suppressed,
     had_previous |-> key \in DOMAIN accepted,
     previous |-> IF key \in DOMAIN accepted THEN accepted[key] ELSE 0]

\* accepted after a check of key.
Accepting(acc, key, suppressed) ==
    IF suppressed THEN acc
    ELSE [k \in DOMAIN acc \cup {key} |-> IF k = key THEN now ELSE acc[k]]

\* A second passes.
Advance ==
    /\ now < MaxTime
    /\ now' = now + 1
    /\ UNCHANGED <<config_vars, calendar_vars, report_vars, sender_vars, post_vars, cleaner_vars, batch_vars, bot_vars, monitor_vars,
                   recent_commands, recent_callbacks, accepted, last_decision>>

\* start_command, help_command, ...: the handler's call of _is_duplicate_command.
Command ==
    /\ \E request \in Commands :
         LET key == Key(request[1], request[2])
             suppressed == is_duplicate(recent_commands, key, now, COMMAND_TIMEOUT)
         IN  /\ recent_commands' = AfterCheck(recent_commands, key, now, COMMAND_TIMEOUT)
             /\ last_decision' = Decision(key, suppressed)
             /\ accepted' = Accepting(accepted, key, suppressed)
    /\ UNCHANGED <<config_vars, calendar_vars, report_vars, sender_vars, post_vars, cleaner_vars, batch_vars, bot_vars, monitor_vars,
                   now, recent_callbacks>>

\* button_callback: the duplicate check of the button, and for
\* analyze_today, when it is let through, that of _run_analysis_with_dates.
Button ==
    /\ \E request \in Buttons :
         LET chat_id == request[1]
             data == request[2]
             key == Key(chat_id, data)
             after == AfterCheck(recent_callbacks, key, now, CALLBACK_TIMEOUT)
             analysis_key == AnalysisKey(chat_id)
         IN  IF data # "analyze_today"
                \/ is_duplicate(recent_callbacks, key, now, CALLBACK_TIMEOUT)
             THEN /\ recent_callbacks' = after
                  /\ UNCHANGED <<accepted, last_decision>>
             ELSE LET suppressed == is_duplicate(after, analysis_key, now, ANALYSIS_TIMEOUT)
                  IN  /\ recent_callbacks' = AfterCheck(after, analysis_key, now,
                                                        ANALYSIS_TIMEOUT)
                      /\ last_decision' = Decision(analysis_key, suppressed)
                      /\ accepted' = Accepting(accepted, analysis_key, suppressed)
    /\ UNCHANGED <<config_vars, calendar_vars, report_vars, sender_vars, post_vars, cleaner_vars, batch_vars, bot_vars, monitor_vars,
                   now, recent_commands>>

\* The bot is constructed with the default configuration.
InitDedup ==
    /\ threshold = 3
    /\ sentiment_pipeline = TRUE
    /\ OthersIdle
    /\ BatchIdle

NextCommands == Advance \/ Command

SpecCommands == InitDedup /\ [][NextCommands]_vars

NextCallbacks == Advance \/ Button

SpecCallbacks == InitDedup /\ [][NextCallbacks]_vars

\* -------------------------------------------------- custom date selection

\* The months, as <<year, month>>, of the calendar keyboards chats press
\* buttons of, the days they press, and the month of datetime.now().
Shown == {<<2024, 12>>, <<2025, 1>>}
Days == {1, 2}
ThisMonth == <<2025, 1>>

\* query.data of the calendar buttons _create_calendar_keyboard makes.
CalendarData ==
    {<<"cal_cancel">>, <<"cal_ignore">>}
    \cup {<<kind, m[1], m[2]>> : kind \in {"cal_prev", "cal_next"}, m \in Shown}
    \cup {<<"cal_date", m[1], m[2], d>> : m \in Shown, d \in Days}

\* a < b for two datetime(year, month, day).
DateBefore(a, b) ==
    \/ a[1] < b[1]
    \/ a[1] = b[1] /\ a[2] < b[2]
    \/ a[1] = b[1] /\ a[2] = b[2] /\ a[3] < b[3]

\* Previous month
previous_month(current_year, current_month) ==
    IF current_month = 1 THEN <<current_year - 1, 12>>
    ELSE <<current_year, current_month - 1>>

\* Next month
next_month(current_year, current_month) ==
    IF current_month = 12 THEN <<current_year + 1, 1>>
    ELSE <<current_year, current_month + 1>>

\* No end date is turned down.
end_date_never_rejected(start_date, end_date) == FALSE

\* if end_date < start_date
end_date_rejected(start_date, end_date) == DateBefore(end_date, start_date)

\* _handle_calendar_callback on the chat's entry state: the entry it leaves
\* (NoSelection when it deletes it) and the <<start_date, end_date>> it calls
\* _run_analysis_with_dates with, <<>> when it does not call it.
handle_calendar_callback(state, data) ==
    LET kept == [state |-> state, analysis |-> <<>>]
    IN  IF state = NoSelection THEN kept
        ELSE IF data[1] = "cal_cancel"
        THEN [state |-> NoSelection, analysis |-> <<>>]
        ELSE IF data[1] = "cal_ignore" THEN kept
        ELSE IF data[1] = "cal_prev"
        THEN [state |-> [state EXCEPT !.current_month = previous_month(data[2], data[3])],
              analysis |-> <<>>]
        ELSE IF data[1] = "cal_next"
        THEN [state |-> [state EXCEPT !.current_month = next_month(data[2], data[3])],
              analysis |-> <<>>]
        ELSE LET selected_date == <<data[2], data[3], data[4]>>
             IN  IF state.stage = "start_date"
                 THEN [state |-> [state EXCEPT !.start_date = selected_date,
                                               !.stage = "end_date"],
                       analysis |-> <<>>]
                 ELSE IF state.stage = "end_date"
                 THEN IF end_date_rejected(state.start_date, selected_date)
                      THEN [state |-> [state EXCEPT !.end_date = selected_date],
                            analysis |-> <<>>]
                      ELSE [state |-> NoSelection,
                            analysis |-> <<state.start_date, selected_date>>]
                 ELSE kept

\* _handle_date_selection with "custom": _show_custom_date_selection gives
\* the chat a fresh entry, whatever it had.
ShowCustomDateSelection ==
    /\ \E chat_id \in Chats :
         /\ date_selection_state' =
               [date_selection_state EXCEPT ![chat_id] =
                   [stage |-> "start_date", start_date |-> NoDate, end_date |-> NoDate,
                    current_month |-> ThisMonth]]
         /\ calendar_event' = [chat_id |-> chat_id, data |-> <<"analyze_custom">>,
                               before |-> date_selection_state, analysis |-> <<>>]
    /\ UNCHANGED <<config_vars, post_vars, cleaner_vars, batch_vars, bot_vars, monitor_vars,
                   dedup_vars, report_vars, sender_vars>>

\* button_callback has let a cal_ button through: _handle_calendar_callback.
CalendarCallback ==
    /\ \E chat_id \in Chats, data \in CalendarData :
         LET handled == handle_calendar_callback(date_selection_state[chat_id], data)
         IN  /\ date_selection_state' =
                   [date_selection_state EXCEPT ![chat_id] = handled.state]
             /\ calendar_event' = [chat_id |-> chat_id, data |-> data,
                                   before |-> date_selection_state,
                                   analysis |-> handled.analysis]
    /\ UNCHANGED <<config_vars, post_vars, cleaner_vars, batch_vars, bot_vars, monitor_vars,
                   dedup_vars, report_vars, sender_vars>>

\* The bot is constructed with the default configuration.
InitCalendar ==
    /\ threshold = 3
    /\ sentiment_pipeline = TRUE
    /\ OthersIdle
    /\ BatchIdle

NextCalendar == ShowCustomDateSelection \/ CalendarCallback

SpecCalendar == InitCalendar /\ [][NextCalendar]_vars

\* ------------------------------------------------- multichannel report

\* The longest list of messages a report is made of.
MaxReport == 3

\* The channels of the messages, and their sentiment['negative'] in units
\* of 0.00001: 0.61228, 0.61232 and 0.61238.
ReportChannels == {"@a", "@b"}
ReportScores == {61228, 61232, 61238}

\* The lists of n analysed messages a report can be made of: ids are
\* distinct.
ReportMessages(n) ==
    {[i \in 1..n |-> [id |-> i, channel |-> f[i][1], is_negative |-> f[i][2],
                      negative |-> f[i][3]]] :
        f \in [1..n -> ReportChannels \X BOOLEAN \X ReportScores]}

\* round(x, 4), in the same units: the nearest multiple of 0.0001. No score
\* of ReportScores lies halfway between two.
round4(x) == ((x + 5) \div 10) * 10

\* post_data of a negative message.
post_data(msg) == [id |-> msg.id, channel |-> msg.channel,
                   negative_score |-> round4(msg.negative)]

\* channels_data[channel]['negative_posts'] after the loop over messages.
RECURSIVE negative_posts(_, _)
negative_posts(msgs, channel) ==
    IF msgs = <<>> THEN <<>>
    ELSE LET msg == msgs[Len(msgs)]
             before == negative_posts(SubSeq(msgs, 1, Len(msgs) - 1), channel)
         IN  IF msg.channel = channel /\ msg.is_negative
             THEN Append(before, post_data(msg))
             ELSE before

\* One post put into a list sorted by negative_score, highest first, after
\* the posts of the same score: list.sort is stable, with reverse=True too.
RECURSIVE Inserted(_, _)
Inserted(sorted, post) ==
    IF sorted = <<>> THEN <<post>>
    ELSE IF sorted[1].negative_score >= post.negative_score
    THEN <<sorted[1]>> \o Inserted(Tail(sorted), post)
    ELSE <<post>> \o sorted

\* posts.sort(key=lambda x: x['negative_score'], reverse=True)
RECURSIVE sort_by_score(_)
sort_by_score(posts) ==
    IF posts = <<>> THEN <<>>
    ELSE Inserted(sort_by_score(SubSeq(posts, 1, Len(posts) - 1)), posts[Len(posts)])

\* The list is not cut.
all_posts(posts, limit) == posts

\* posts[:max_posts], for max_posts >= 0.
top_posts(posts, limit) == SubSeq(posts, 1, Min(limit, Len(posts)))

\* channels_data, as channel -> negative_posts, of the report.
report_channels_data(msgs, limit) ==
    [channel \in {msgs[i].channel : i \in DOMAIN msgs} |->
        top_posts(sort_by_score(negative_posts(msgs, channel)), limit)]

\* generate_multichannel_negative_posts_report(messages, max_posts) is called.
CallReport ==
    /\ report_pc = "idle"
    /\ report_pc' = "called"
    /\ UNCHANGED <<config_vars, post_vars, cleaner_vars, batch_vars, bot_vars, monitor_vars,
                   dedup_vars, calendar_vars, sender_vars, report_messages, max_posts,
                   channels_data>>

\* The grouping loop, the sort and the cut of each channel's negative_posts.
GenerateReport ==
    /\ report_pc = "called"
    /\ channels_data' = report_channels_data(report_messages, max_posts)
    /\ report_pc' = "done"
    /\ UNCHANGED <<config_vars, post_vars, cleaner_vars, batch_vars, bot_vars, monitor_vars,
                   dedup_vars, calendar_vars, sender_vars, report_messages, max_posts>>

\* A report is about to be made of some analysed messages, with a positive
\* max_posts.
InitReport ==
    /\ threshold = 3
    /\ sentiment_pipeline = TRUE
    /\ pc = "idle"
    /\ comments = <<>>
    /\ comment_sentiments = <<>>
    /\ negative_count = 0
    /\ calls = <<>>
    /\ result = NoResult
    /\ CleanerIdle
    /\ BatchIdle
    /\ BotIdle
    /\ MonitorIdle
    /\ DedupIdle
    /\ CalendarIdle
    /\ SenderIdle
    /\ \E n \in 0..MaxReport : report_messages \in ReportMessages(n)
    /\ max_posts \in 1..MaxReport
    /\ channels_data = <<>>
    /\ report_pc = "idle"

NextReport == CallReport \/ GenerateReport

SpecReport == InitReport /\ [][NextReport]_vars

\* ------------------------------------------------------- long messages

\* The most lines a message has.
MaxLines == 4

\* MAX_MESSAGE_LENGTH of _send_long_message, Telegram's limit for one
\* message, and len("📄 Продолжение...\n\n").
MAX_MESSAGE_LENGTH == 4000
TELEGRAM_LIMIT == 4096
PREFIX_LENGTH == 18

\* The lengths of the lines of a message; a line of length 0 is empty, any
\* other begins and ends with a character that is not white space.
LineLengths == {0, 1500, 2500, 4100}

\* message.split('\n') of the messages: each line with its position.
LongMessages ==
    UNION {{[i \in 1..n |-> [id |-> i, len |-> f[i]]] : f \in [1..n -> LineLengths]} :
           n \in 1..MaxLines}

\* A string as the list of its lines; the empty string is <<>>.
AsString(lines) == IF Len(lines) = 1 /\ lines[1].len = 0 THEN <<>> ELSE lines

\* len() of a string.
RECURSIVE TextLen(_)
TextLen(lines) ==
    IF lines = <<>> THEN 0
    ELSE IF Len(lines) = 1 THEN lines[1].len
    ELSE lines[1].len + 1 + TextLen(Tail(lines))

\* str.strip() of a string: the empty lines at both ends go.
RECURSIVE strip_lines(_)
strip_lines(lines) ==
    IF lines = <<>> THEN <<>>
    ELSE IF lines[1].len = 0 THEN strip_lines(Tail(lines))
    ELSE IF lines[Len(lines)].len = 0 THEN strip_lines(SubSeq(lines, 1, Len(lines) - 1))
    ELSE lines

\* The loop over lines: chunks and current_chunk after the lines given.
RECURSIVE split_loop(_)
split_loop(lines) ==
    IF lines = <<>> THEN [chunks |-> <<>>, current_chunk |-> <<>>]
    ELSE LET before == split_loop(SubSeq(lines, 1, Len(lines) - 1))
             line == lines[Len(lines)]
             current_chunk == before.current_chunk
         IN  IF TextLen(current_chunk) + line.len + 1 > MAX_MESSAGE_LENGTH
             THEN [chunks |-> IF current_chunk # <<>>
                              THEN Append(before.chunks, strip_lines(current_chunk))
                              ELSE before.chunks,
                   current_chunk |-> AsString(<<line>>)]
             ELSE [chunks |-> before.chunks,
                   current_chunk |-> IF current_chunk # <<>>
                                     THEN Append(current_chunk, line)
                                     ELSE AsString(<<line>>)]

\* chunks when the sending starts.
split_message(lines) ==
    LET looped == split_loop(lines)
    IN  IF looped.current_chunk # <<>>
        THEN Append(looped.chunks, strip_lines(looped.current_chunk))
        ELSE looped.chunks

\* The text of the i-th chunk as send_message gets it.
chunk_text(i, chunk) == [prefixed |-> i # 1, lines |-> chunk]

\* if len(message) <= MAX_MESSAGE_LENGTH: the message is sent as it is.
SendWhole ==
    /\ send_pc = "called"
    /\ TextLen(AsString(long_message)) <= MAX_MESSAGE_LENGTH
    /\ sent_texts' = <<[prefixed |-> FALSE, lines |-> AsString(long_message)]>>
    /\ send_pc' = "done"
    /\ UNCHANGED <<config_vars, post_vars, cleaner_vars, batch_vars, bot_vars, monitor_vars,
                   dedup_vars, calendar_vars, report_vars, long_message, chunks>>

\* else: the message is split into chunks.
SplitMessage ==
    /\ send_pc = "called"
    /\ TextLen(AsString(long_message)) > MAX_MESSAGE_LENGTH
    /\ chunks' = split_message(long_message)
    /\ send_pc' = IF split_message(long_message) = <<>> THEN "done" ELSE "sending"
    /\ UNCHANGED <<config_vars, post_vars, cleaner_vars, batch_vars, bot_vars, monitor_vars,
                   dedup_vars, calendar_vars, report_vars, long_message, sent_texts>>

\* for i, chunk in enumerate(chunks): the next chunk is sent.
SendChunk ==
    /\ send_pc = "sending"
    /\ LET i == Len(sent_texts) + 1
       IN  /\ sent_texts' = Append(sent_texts, chunk_text(i, chunks[i]))
           /\ send_pc' = IF i = Len(chunks) THEN "done" ELSE "sending"
    /\ UNCHANGED <<config_vars, post_vars, cleaner_vars, batch_vars, bot_vars, monitor_vars,
                   dedup_vars, calendar_vars, report_vars, long_message, chunks>>

\* _send_long_message is called with some message.
InitSender ==
    /\ threshold = 3
    /\ sentiment_pipeline = TRUE
    /\ pc = "idle"
    /\ comments = <<>>
    /\ comment_sentiments = <<>>
    /\ negative_count = 0
    /\ calls = <<>>
    /\ result = NoResult
    /\ CleanerIdle
    /\ BatchIdle
    /\ BotIdle
    /\ MonitorIdle
    /\ DedupIdle
    /\ CalendarIdle
    /\ ReportIdle
    /\ long_message \in LongMessages
    /\ chunks = <<>>
    /\ sent_texts = <<>>
    /\ send_pc = "called"

NextSender == SendWhole \/ SplitMessage \/ SendChunk

SpecSender == InitSender /\ [][NextSender]_vars

\* ------------------------------------------------------------ properties

\* The strict-negative rule, stated on the three scores.
StrictlyNegative(s) == RatGt(s.negative, s.positive) /\ RatGt(s.negative, s.neutral)

\* The analysed comments that satisfy the strict-negative rule.
NegativeComments ==
    {i \in 1..Len(comment_sentiments) : StrictlyNegative(comment_sentiments[i])}

\* determine_post_sentiment_from_comments has returned for a non-empty list.
Resolved == pc = "done" /\ comments # <<>>

\* negativeCount / totalCount >= negativeThreshold, cross-multiplied.
RatioReachesThreshold ==
    One * Cardinality(NegativeComments) >= threshold * Len(comments)

\* The arithmetic mean of one field over all the comments.
MeanOf(key) ==
    RatDiv(RatSum(FieldScores(comment_sentiments, key)), RatInt(Len(comments)))

IsNormalized(s) ==
    /\ RatGe(s.positive, RatInt(0))
    /\ RatGe(s.negative, RatInt(0))
    /\ RatGe(s.neutral, RatInt(0))
    /\ RatAdd(RatAdd(s.positive, s.negative), s.neutral) = RatInt(1)

C2_NoCommentsNeutral ==
    (pc = "done" /\ comments = <<>>) =>
        /\ result.sentiment = [positive |-> <<0, 1>>, negative |-> <<0, 1>>,
                               neutral |-> <<1, 1>>]
        /\ result.dominant_sentiment = "neutral"
        /\ result.is_negative = FALSE
        /\ calls = <<>>

\* The empty list resolved under a threshold that escalates every ratio.
C2_Witness ==
    /\ pc = "done"
    /\ comments = <<>>
    /\ threshold <= 0
    /\ result.dominant_sentiment = "neutral"

\* C3: below the threshold the returned scores are the plain means over all
\* comments, dominant is a field with the largest mean, and is_negative is
\* true iff the mean negative exceeds both other means.
C3_NonEscalationMeans ==
    (Resolved /\ ~RatioReachesThreshold) =>
        LET mp == MeanOf("positive")
            mn == MeanOf("negative")
            mu == MeanOf("neutral")
            top == RatMax(mp, RatMax(mn, mu))
        IN  /\ result.sentiment = [positive |-> mp, negative |-> mn, neutral |-> mu]
            /\ result.sentiment[result.dominant_sentiment] = top
            /\ result.is_negative <=> (RatGt(mn, mp) /\ RatGt(mn, mu))

\* Three comments, one of them negative, under a threshold of 0.5.
C3_Witness ==
    /\ Resolved
    /\ ~RatioReachesThreshold
    /\ threshold = 5
    /\ Len(comments) = 3
    /\ Cardinality(NegativeComments) = 1
    /\ result.sentiment.negative = MeanOf("negative")

\* The blended triple of the escalation branch, from the means and the ratio.
RawBlend ==
    LET ratio == Rat(Cardinality(NegativeComments), Len(comments))
    IN  [positive |-> RatMul(MeanOf("positive"), RatSub(RatInt(1), ratio)),
         negative |-> RatAdd(MeanOf("negative"), RatMul(ratio, Rat(1, 2))),
         neutral |-> RatMul(MeanOf("neutral"),
                            RatSub(RatInt(1), RatMul(ratio, Rat(1, 2))))]

RawTotal == RatAdd(RatAdd(RawBlend.positive, RawBlend.negative), RawBlend.neutral)

\* C4: in the escalation branch the returned scores are the blended triple,
\* each divided by their total whenever the total is positive.
C4_EscalationBlend ==
    (Resolved /\ RatioReachesThreshold) =>
        LET raw == RawBlend
            total == RatAdd(RatAdd(raw.positive, raw.negative), raw.neutral)
        IN  RatGt(total, RatInt(0)) =>
                result.sentiment = [positive |-> RatDiv(raw.positive, total),
                                    negative |-> RatDiv(raw.negative, total),
                                    neutral |-> RatDiv(raw.neutral, total)]

\* An escalated post with some but not all comments negative, whose blend
\* does not sum to 1, so that the division changes it.
C4_Witness ==
    /\ Resolved
    /\ RatioReachesThreshold
    /\ Cardinality(NegativeComments) \in 1..(Len(comments) - 1)
    /\ RatGt(RawBlend.positive, RatInt(0))
    /\ RatGt(RawBlend.neutral, RatInt(0))
    /\ RawTotal # RatInt(1)
    /\ result.sentiment.negative = RatDiv(RawBlend.negative, RawTotal)

\* C5: when every comment's scores are non-negative and sum to 1, so are
\* the returned scores, in the three cases.
C5_ResultNormalized ==
    (pc = "done" /\ \A i \in 1..Len(comment_sentiments) : IsNormalized(comment_sentiments[i]))
        => IsNormalized(result.sentiment)

\* An escalated post of normalized comments.
C5_Witness ==
    /\ Resolved
    /\ RatioReachesThreshold
    /\ Cardinality(NegativeComments) > 0
    /\ \A i \in 1..Len(comment_sentiments) : IsNormalized(comment_sentiments[i])
    /\ RawTotal # RatInt(1)
    /\ IsNormalized(result.sentiment)

\* C6: scores count as negative iff the negative score is strictly above
\* both others, for comments (the tally) and for non-escalated posts.
C6_StrictNegativeRule ==
    /\ pc \in {"loop", "done"} => negative_count = Cardinality(NegativeComments)
    /\ (Resolved /\ ~RatioReachesThreshold) =>
          (result.is_negative <=> StrictlyNegative(result.sentiment))

\* A single comment scored {0.4, 0.4, 0.2}: not counted, post not negative.
C6_Witness ==
    /\ Resolved
    /\ comment_sentiments = <<Scores(Rat(4, 10), Rat(4, 10), Rat(2, 10))>>
    /\ negative_count = 0
    /\ result.is_negative = FALSE

\* The first field, in the order positive, negative, neutral, whose score
\* is the largest.
FirstLargest(s) ==
    IF RatGe(s.positive, s.negative) /\ RatGe(s.positive, s.neutral) THEN "positive"
    ELSE IF RatGe(s.negative, s.neutral) THEN "negative"
    ELSE "neutral"

\* C7: get_dominant_sentiment returns the field with the largest score, the
\* first one in the order positive, negative, neutral on a tie, for the
\* scores of every comment and of every non-escalated post.
C7_DominantFirstLargest ==
    /\ \A i \in 1..Len(comment_sentiments) :
          get_dominant_sentiment(comment_sentiments[i]) = FirstLargest(comment_sentiments[i])
    /\ (Resolved /\ ~RatioReachesThreshold) =>
          result.dominant_sentiment = FirstLargest(result.sentiment)

\* A non-escalated post whose positive and negative means tie for the
\* largest, returned "positive".
C7_Witness ==
    /\ Resolved
    /\ ~RatioReachesThreshold
    /\ result.sentiment.positive = result.sentiment.negative
    /\ RatGt(result.sentiment.positive, result.sentiment.neutral)
    /\ result.dominant_sentiment = "positive"

\* The comments analysed so far whose text is None, empty or cleans to ''.
EmptyComments ==
    {i \in 1..Len(comment_sentiments) : clean_text(comments[i]) = <<>>}

\* C8: a comment whose text is empty, None or empty after cleaning gets
\* {0, 0, 1} with no backend invoked and is not counted as negative.
C8_EmptyTextNeutral ==
    LET empty == EmptyComments
    IN  /\ \A i \in empty :
              /\ comment_sentiments[i] = [positive |-> <<0, 1>>, negative |-> <<0, 1>>,
                                          neutral |-> <<1, 1>>]
              /\ calls[i] = <<>>
              /\ ~StrictlyNegative(comment_sentiments[i])
        /\ pc \in {"loop", "done"} =>
              negative_count <= Len(comment_sentiments) - Cardinality(empty)

\* A resolved post whose comments are None, '' and "@a".
C8_Witness ==
    /\ pc = "done"
    /\ \E i, j, k \in EmptyComments :
          comments[i] = NoneText /\ comments[j] = <<>> /\ comments[k] = <<"@", "a">>

\* The comments for which some backend raised.
FailedComments ==
    {i \in 1..Len(calls) : \E j \in 1..Len(calls[i]) : calls[i][j].raised}

C10_ThresholdWithinUnitInterval ==
    Resolved => (threshold >= 0 /\ threshold <= One)

\* C15: in the escalation branch the total of the blend is 0 only if the
\* three means are 0; the all-zero triple is then returned as it is, and
\* the verdict is still "negative" with is_negative true.
C15_ZeroTotalLeftAsZeros ==
    (Resolved /\ RatioReachesThreshold) =>
        LET raw == RawBlend
            total == RatAdd(RatAdd(raw.positive, raw.negative), raw.neutral)
        IN  /\ total = RatInt(0) =>
                  /\ MeanOf("positive") = RatInt(0)
                  /\ MeanOf("negative") = RatInt(0)
                  /\ MeanOf("neutral") = RatInt(0)
                  /\ result.sentiment = [positive |-> <<0, 1>>, negative |-> <<0, 1>>,
                                         neutral |-> <<0, 1>>]
            /\ result.dominant_sentiment = "negative"
            /\ result.is_negative = TRUE

\* Two comments the pipeline scored with an empty list, under threshold 0.
C15_Witness ==
    /\ Resolved
    /\ threshold = 0
    /\ Len(comments) = 2
    /\ \A i \in 1..2 : comment_sentiments[i] = Scores(RatInt(0), RatInt(0), RatInt(0))
    /\ result.sentiment = Scores(RatInt(0), RatInt(0), RatInt(0))
    /\ result.is_negative

\* C14: clean_text is idempotent: cleaning its own output changes nothing.
C14_CleanTextIdempotent == passes = 2 => recleaned = cleaned

\* C16: the output of clean_text has no leading or trailing whitespace, its
\* only whitespace is single spaces, and None and '' give ''.
C16_WhitespaceCollapsedAndTrimmed ==
    passes >= 1 =>
        /\ cleaned # <<>> => (cleaned[1] \notin SpaceChars /\ cleaned[Len(cleaned)] \notin SpaceChars)
        /\ \A i \in 1..Len(cleaned) : cleaned[i] \in SpaceChars => cleaned[i] = " "
        /\ \A i \in 1..(Len(cleaned) - 1) :
              ~(cleaned[i] \in SpaceChars /\ cleaned[i + 1] \in SpaceChars)
        /\ input_text \in {NoneText, <<>>} => cleaned = <<>>

\* "y \ny" was cleaned to "y y".
C16_Witness ==
    /\ passes >= 1
    /\ input_text = <<"y", " ", "\n", "y">>
    /\ cleaned = <<"y", " ", "y">>

\* The comments of an input post: those under its comments key, if any.
InputComments(message) == Get(message, "comments", <<>>)

\* Output post i against input post i.
SamePostAnnotated(i) ==
    LET given == messages[i]
        out == analyzed_messages[i]
        cs == InputComments(given)
    IN  /\ \A k \in DOMAIN given \ {"comments"} : k \in DOMAIN out /\ out[k] = given[k]
        /\ Len(out.comments) = Len(cs)
        /\ \A j \in 1..Len(cs) :
             \A k \in DOMAIN cs[j] : k \in DOMAIN out.comments[j] /\ out.comments[j][k] = cs[j][k]

\* C11: analyze_messages_sentiment returns one output post per input post,
\* output post i being input post i annotated, with the comments of the
\* input post in their order; nothing is dropped, and no exception leaves
\* the call, when the model fails on a comment.
C11_NoPostOrCommentDropped ==
    /\ batch_pc # "raised"
    /\ Len(analyzed_messages) <= Len(messages)
    /\ batch_pc = "done" => Len(analyzed_messages) = Len(messages)
    /\ \A i \in 1..Len(analyzed_messages) : SamePostAnnotated(i)

\* Two posts were analysed, the second with two comments, the model having
\* failed on its comment "oh" (which is why that comment is neutral).
C11_Witness ==
    /\ batch_pc = "done"
    /\ Len(messages) = 2
    /\ messages[1].id = 3
    /\ messages[2].id = 4
    /\ Len(analyzed_messages[2].comments) = 2
    /\ analyzed_messages[2].comments[2].id = 42
    /\ analyzed_messages[2].comments[2].sentiment = NeutralDefault

\* C12: every output post carries sentiment, dominant_sentiment, is_negative
\* and sentiment_source, every output comment the first three, and
\* sentiment_source is "comments" iff the input post had a comment, else
\* "neutral_default", a post without a comments key having none.
C12_FieldsAndSource ==
    \A i \in 1..Len(analyzed_messages) :
        LET out == analyzed_messages[i]
        IN  /\ {"sentiment", "dominant_sentiment", "is_negative", "sentiment_source"}
                   \subseteq DOMAIN out
            /\ \A j \in 1..Len(out.comments) :
                 {"sentiment", "dominant_sentiment", "is_negative"}
                     \subseteq DOMAIN out.comments[j]
            /\ out.sentiment_source = "comments" <=> Len(InputComments(messages[i])) >= 1
            /\ out.sentiment_source \in {"comments", "neutral_default"}

\* The post without a comments key and the post with one comment, analysed.
C12_Witness ==
    /\ batch_pc = "done"
    /\ Len(messages) = 2
    /\ "comments" \notin DOMAIN messages[1]
    /\ analyzed_messages[1].sentiment_source = "neutral_default"
    /\ messages[2].id = 3
    /\ analyzed_messages[2].sentiment_source = "comments"

\* The output comments of output post i that are annotated is_negative.
FlaggedComments(i) ==
    {j \in 1..Len(analyzed_messages[i].comments) : analyzed_messages[i].comments[j].is_negative}

\* C18: the post verdict comes from the results attached to the comments:
\* when the fraction of a post's output comments flagged is_negative reaches
\* the threshold the post is negative, for any model, one that answers
\* differently on a repeated call included.
C18_VerdictFromAttachedResults ==
    \A i \in 1..Len(analyzed_messages) :
        LET out == analyzed_messages[i]
        IN  (Len(out.comments) >= 1
             /\ RatGe(Rat(Cardinality(FlaggedComments(i)), Len(out.comments)),
                      Tenths(threshold)))
            => (out.is_negative /\ out.dominant_sentiment = "negative")

\* C20: for every output post and every output comment, is_negative implies
\* dominant_sentiment = "negative".
C20_NegativeImpliesDominantNegative ==
    \A i \in 1..Len(analyzed_messages) :
        LET out == analyzed_messages[i]
        IN  /\ out.is_negative => out.dominant_sentiment = "negative"
            /\ \A j \in 1..Len(out.comments) :
                 out.comments[j].is_negative => out.comments[j].dominant_sentiment = "negative"

\* A negative post whose first comment is negative, beside a post with
\* comments that is not negative.
C20_Witness ==
    /\ batch_pc = "done"
    /\ Len(messages) = 2
    /\ analyzed_messages[1].is_negative
    /\ analyzed_messages[1].comments # <<>>
    /\ analyzed_messages[1].comments[1].is_negative
    /\ ~analyzed_messages[2].is_negative
    /\ analyzed_messages[2].comments # <<>>

\* The four annotations of an output post.
Annotation(out) ==
    <<out.sentiment, out.dominant_sentiment, out.is_negative, out.sentiment_source>>

C19_PostAnnotatedAlike ==
    /\ \A i \in 1..Len(analyzed_messages), j \in 1..Len(previous.analyzed_messages) :
         messages[i] = previous.messages[j]
             => Annotation(analyzed_messages[i]) = Annotation(previous.analyzed_messages[j])
    /\ \A i, j \in 1..Len(analyzed_messages) :
         messages[i] = messages[j]
             => Annotation(analyzed_messages[i]) = Annotation(analyzed_messages[j])

\* Post 4 was analysed after the negative post 3 in the first call, and
\* before the post without comments in the second.
C19_Witness ==
    /\ batch_pc = "done"
    /\ previous.returned
    /\ Len(previous.messages) = 2
    /\ previous.messages[1].id = 3
    /\ previous.analyzed_messages[1].is_negative
    /\ previous.messages[2].id = 4
    /\ Len(messages) = 2
    /\ messages[1].id = 4
    /\ messages[2].id = 1

\* C17: an analysis fetches posts only from the channels in
\* selected_channels: none from a configured channel the user deselected.
C17_OnlySelectedChannelsFetched ==
    \A i \in 1..Len(messages_by_channel) :
        messages_by_channel[i] \in Range(selected_channels)

\* C21: analyze_messages_sentiment leaves its input as it was messages_given, list,
\* posts and comments, and every output record has every field of its input
\* record with the input's value, the post's comments aside.
C21_InputUnchanged ==
    /\ messages = messages_given
    /\ \A i \in 1..Len(analyzed_messages) :
         LET out == analyzed_messages[i]
             cs == InputComments(messages_given[i])
         IN  /\ \A k \in DOMAIN messages_given[i] \ {"comments", "sentiment", "dominant_sentiment",
                                            "is_negative", "sentiment_source"} :
                  out[k] = messages_given[i][k]
             /\ \A j \in 1..Len(cs) :
                  \A k \in DOMAIN cs[j] \ {"sentiment", "dominant_sentiment", "is_negative"} :
                      out.comments[j][k] = cs[j][k]

\* Posts 4 and 3 were analysed; the input still has no sentiment field.
C21_Witness ==
    /\ batch_pc = "done"
    /\ Len(messages_given) = 2
    /\ messages_given[1].id = 4
    /\ messages_given[2].id = 3
    /\ "sentiment" \in DOMAIN analyzed_messages[2].comments[1]
    /\ "sentiment" \notin DOMAIN messages[2].comments[1]
    /\ "sentiment" \notin DOMAIN messages[1]

\* The alerts sent for the posts with a given id.
RECURSIVE AlertsOver(_)
AlertsOver(posts) ==
    IF posts = {} THEN 0
    ELSE LET p == CHOOSE q \in posts : TRUE
         IN  alerts[p] + AlertsOver(posts \ {p})

AlertsForId(id) == AlertsOver({p \in MonitorPosts : p.id = id})

NoTickRunning == \A t \in 1..MaxTicks : ticks[t].pc = "idle"

ScheduledJobs == jobs[1] + jobs[2]

\* C22: over any ticks, overlapping ones and a restart that reloads
\* sent_messages.json included, at most one alert is sent for a post id.
C22_AtMostOneAlertPerId ==
    \A id \in {p.id : p \in MonitorPosts} : AlertsForId(id) <= 1

\* C23: when a tick has ended, every post a tick analysed as negative has
\* had its alert sent.
C23_NegativesAlerted ==
    NoTickRunning => \A p \in negatives_seen : alerts[p] >= 1

\* C24: at most one monitoring job is scheduled, and one is scheduled iff
\* monitoring_active.
C24_OneJobIffActive ==
    /\ ScheduledJobs <= 1
    /\ ScheduledJobs >= 1 <=> monitoring_active

\* C25: no alert is sent while monitoring_active is false, and a tick that
\* starts then does not go on to fetch.
C25_NoAlertWhileInactive ==
    [][/\ alerts' # alerts => monitoring_active
       /\ last_alert'.outcome = "sent" /\ last_alert' # last_alert => monitoring_active
       /\ \A t \in 1..MaxTicks :
            (ticks[t].pc = "idle" /\ ticks'[t].pc = "fetching") => monitoring_active]_vars

\* /stop arrived while a tick awaited; the tick then sent nothing for its
\* negative post.
C25_Witness ==
    /\ last_alert = [outcome |-> "skipped", active |-> FALSE]
    /\ ~monitoring_active
    /\ NoTickRunning
    /\ negatives_seen # {}
    /\ \A p \in MonitorPosts : alerts[p] = 0

\* C26: _is_duplicate_command suppresses a command iff the same chat and
\* command was last let through less than 2 s earlier: a suppressed
\* duplicate does not extend the window, other keys do not count.
C26_CommandSuppressedIffRecent ==
    last_decision # NoDecision =>
        (last_decision.suppressed <=>
            (last_decision.had_previous
             /\ last_decision.at - last_decision.previous < COMMAND_TIMEOUT))

\* /start of chat 1 is let through exactly 2 s after it was last let
\* through; chat 2 has sent /start as well.
C26_Witness ==
    /\ last_decision.key = Key(1, "start")
    /\ ~last_decision.suppressed
    /\ last_decision.had_previous
    /\ last_decision.at - last_decision.previous = COMMAND_TIMEOUT
    /\ Key(2, "start") \in DOMAIN accepted

\* C27: no analysis is started within 30 s of the chat's previous started
\* analysis.
C27_AnalysesThirtySecondsApart ==
    (last_decision # NoDecision /\ ~last_decision.suppressed /\ last_decision.had_previous)
        => last_decision.at - last_decision.previous >= ANALYSIS_TIMEOUT

\* The last handler run was _handle_calendar_callback.
CalendarHandled == calendar_event.data # <<>> /\ calendar_event.data[1] # "analyze_custom"

\* The entry of the chat of the last calendar event, before and after it.
EntryBefore == calendar_event.before[calendar_event.chat_id]
EntryAfter == date_selection_state[calendar_event.chat_id]

\* The last calendar event picked a date.
PickedDate ==
    <<calendar_event.data[2], calendar_event.data[3], calendar_event.data[4]>>

\* C28: in custom date selection, _run_analysis_with_dates is called only by
\* a date pick made in the end_date stage, with the start date picked before
\* and an end date that is not earlier; an end date earlier than the start
\* date starts no analysis and leaves the chat in the end_date stage with its
\* start date; cancelling and completing delete the chat's entry; a calendar
\* callback of a chat without an entry changes no entry and starts nothing.
C28_CustomDateSelection ==
    /\ \A chat \in Chats :
         date_selection_state[chat].stage = "end_date"
            => date_selection_state[chat].start_date # NoDate
    /\ CalendarHandled =>
         /\ calendar_event.analysis # <<>> =>
              /\ calendar_event.data[1] = "cal_date"
              /\ EntryBefore.stage = "end_date"
              /\ calendar_event.analysis = <<EntryBefore.start_date, PickedDate>>
              /\ ~DateBefore(PickedDate, EntryBefore.start_date)
              /\ EntryAfter = NoSelection
         /\ ( /\ calendar_event.data[1] = "cal_date"
              /\ EntryBefore.stage = "end_date"
              /\ DateBefore(PickedDate, EntryBefore.start_date) ) =>
              /\ calendar_event.analysis = <<>>
              /\ EntryAfter.stage = "end_date"
              /\ EntryAfter.start_date = EntryBefore.start_date
         /\ calendar_event.data[1] = "cal_cancel" => EntryAfter = NoSelection
         /\ EntryBefore = NoSelection =>
              /\ date_selection_state = calendar_event.before
              /\ calendar_event.analysis = <<>>
         /\ \A chat \in Chats \ {calendar_event.chat_id} :
              date_selection_state[chat] = calendar_event.before[chat]

\* Chat 1 has completed a selection whose end date is later than its start
\* date, while chat 2 stays in the end_date stage after an end date of its
\* own was turned down.
C28_Witness ==
    /\ calendar_event.chat_id = 1
    /\ calendar_event.analysis # <<>>
    /\ DateBefore(calendar_event.analysis[1], calendar_event.analysis[2])
    /\ date_selection_state[2].stage = "end_date"
    /\ date_selection_state[2].end_date # NoDate
    /\ DateBefore(date_selection_state[2].end_date, date_selection_state[2].start_date)

\* The negative messages of a channel that its negative_posts leaves out.
LeftOut(channel) ==
    {i \in DOMAIN report_messages :
        /\ report_messages[i].channel = channel
        /\ report_messages[i].is_negative
        /\ \A k \in DOMAIN channels_data[channel] :
              channels_data[channel][k].id # report_messages[i].id}

\* C29: in the multichannel report, each channel's negative_posts holds only
\* negative posts of that channel, at most max_posts of them, sorted by
\* negative_score from the highest down, and no negative post of the channel
\* that is left out has a higher rounded negative_score than one included.
C29_TopNegativePostsPerChannel ==
    report_pc = "done" =>
        \A channel \in DOMAIN channels_data :
            LET posts == channels_data[channel]
            IN  /\ \A k \in DOMAIN posts :
                      /\ posts[k].channel = channel
                      /\ \E i \in DOMAIN report_messages :
                            /\ report_messages[i].id = posts[k].id
                            /\ report_messages[i].channel = channel
                            /\ report_messages[i].is_negative
                            /\ posts[k].negative_score = round4(report_messages[i].negative)
                /\ Len(posts) <= max_posts
                /\ \A k \in 1..(Len(posts) - 1) :
                      posts[k].negative_score >= posts[k + 1].negative_score
                /\ \A i \in LeftOut(channel) : \A k \in DOMAIN posts :
                      round4(report_messages[i].negative) <= posts[k].negative_score

\* A channel's list of two posts was cut: the post left out has the rounded
\* score of the last one included and a higher score before rounding, and
\* the first one included has a higher rounded score than both.
C29_Witness ==
    /\ report_pc = "done"
    /\ \E channel \in DOMAIN channels_data :
         LET posts == channels_data[channel]
         IN  /\ Len(posts) = 2
             /\ posts[1].negative_score > posts[2].negative_score
             /\ \E i \in LeftOut(channel), j \in DOMAIN report_messages :
                   /\ report_messages[j].id = posts[2].id
                   /\ round4(report_messages[i].negative) = posts[2].negative_score
                   /\ report_messages[i].negative > report_messages[j].negative

\* len() of a text given to send_message.
SentLen(text) == TextLen(text.lines) + (IF text.prefixed THEN PREFIX_LENGTH ELSE 0)

\* The lines of the texts sent, in the order sent.
RECURSIVE SentLines(_)
SentLines(texts) ==
    IF texts = <<>> THEN <<>>
    ELSE texts[1].lines \o SentLines(Tail(texts))

\* C30: every text _send_long_message gives to send_message, the
\* continuation prefix included, is at most 4096 characters long, and once
\* all are sent their lines are the lines of the message, in its order.
C30_LongMessageWithinLimit ==
    /\ \A k \in DOMAIN sent_texts : SentLen(sent_texts[k]) <= TELEGRAM_LIMIT
    /\ send_pc = "done" => SentLines(sent_texts) = AsString(long_message)

====
